---- MODULE Spec2Model ----
(***************************************************************************)
(* Vendor-statement review engine (src/src/reviewer.py) and the batch      *)
(* loop that drives it (src/app_streamlit.py).                             *)
(*                                                                         *)
(* Amounts are Python floats in the source; here they are fixed-point      *)
(* integers counted in hundredths of a currency unit (Scale), so 1.0 is    *)
(* Scale and 2.50 is 250.  A datetime is a record [day, tod, aware]: the   *)
(* calendar day as a day number (day 0 is 2024-12-01), the time of day in  *)
(* hours, and whether the value carries a tzinfo.                          *)
(***************************************************************************)
EXTENDS Integers, Sequences, FiniteSets, TLC

VARIABLES
    lines,            \* review_vendor argument: the raw records
    report_date_str,  \* review_vendor argument: the report date text
    pc,               \* position inside review_vendor
    report_dt,        \* local report_dt
    tl,               \* local tl (the timeline)
    red,              \* local red
    orange,           \* local orange
    open_invoices,    \* ledger of unpaid_invoice_over_50d: <<date, amount>> pairs
    open_amts,        \* ledger of credit_balance_mismatch: amounts
    scan,             \* index of the next entry of the running matching scan
    result,           \* the returned dict, or the exception that left review_vendor
    vendors,          \* run_full_review: the vendor list
    vi,               \* run_full_review: loop index i
    fetched,          \* run_full_review: local lines of the current vendor
    rows,             \* run_full_review: rows
    details,          \* run_full_review: details
    errors,           \* run_full_review: errors
    bpc,              \* position inside run_full_review
    returned,         \* what run_full_review handed back, or the exception
    calls             \* direct review_vendor calls so far, the last one running

vars == <<lines, report_date_str, pc, report_dt, tl, red, orange, open_invoices,
          open_amts, scan, result, vendors, vi, fetched, rows, details, errors,
          bpc, returned, calls>>

reviewVars == <<lines, report_date_str, pc, report_dt, tl, red, orange,
                open_invoices, open_amts, scan, result>>

batchVars == <<vendors, vi, fetched, rows, details, errors, bpc, returned>>

-----------------------------------------------------------------------------
(* Bounds of the model *)

MaxLines == 3
MaxMonthLines == 4
MaxVendors == 2

-----------------------------------------------------------------------------
(* Values *)

\* hundredths per currency unit: the float 1.0 of the source
Scale == 100

None == [none |-> TRUE]

Abs(n) == IF n < 0 THEN -n ELSE n

Min(a, b) == IF a <= b THEN a ELSE b

RECURSIVE SumSeq(_)
SumSeq(s) == IF s = <<>> THEN 0 ELSE s[1] + SumSeq(Tail(s))

\* datetime values and their comparison (naive with naive)
Dt(day, tod) == [day |-> day, tod |-> tod, aware |-> FALSE]

DtAware(day, tod) == [day |-> day, tod |-> tod, aware |-> TRUE]

DtLt(a, b) == a.day < b.day \/ (a.day = b.day /\ a.tod < b.tod)

DtLe(a, b) == ~DtLt(b, a)

\* comparing an offset-naive with an offset-aware datetime raises TypeError
CmpRaises(a, b) == a.aware # b.aware

\* (a - b).days: timedelta normalises to days (floor) plus a non-negative rest
DeltaDays(a, b) == (a.day - b.day) - (IF a.tod < b.tod THEN 1 ELSE 0)

\* dt - timedelta(days=n)
MinusDays(a, n) == [a EXCEPT !.day = a.day - n]

-----------------------------------------------------------------------------
(* Text: a str is a sequence of one-character strings *)

Digits == <<"0", "1", "2", "3", "4", "5", "6", "7", "8", "9">>

IsDigit(c) == \E d \in 1..Len(Digits) : Digits[d] = c

DigitOf(c) == (CHOOSE d \in 1..Len(Digits) : Digits[d] = c) - 1

RECURSIVE DigitsVal(_)
DigitsVal(s) ==
    IF s = <<>> THEN 0
    ELSE 10 * DigitsVal(SubSeq(s, 1, Len(s) - 1)) + DigitOf(s[Len(s)])

Has(s, c) == \E j \in 1..Len(s) : s[j] = c

\* s.replace(c, "")
Remove(s, c) == SelectSeq(s, LAMBDA ch : ch # c)

\* s.replace(a, b) for single characters
ReplaceCh(s, a, b) == [j \in 1..Len(s) |-> IF s[j] = a THEN b ELSE s[j]]

IsSpace(c) == c \in {" ", "nbsp"}

\* s.strip()
RECURSIVE Strip(_)
Strip(s) ==
    IF s = <<>> THEN s
    ELSE IF IsSpace(s[1]) THEN Strip(Tail(s))
    ELSE IF IsSpace(s[Len(s)]) THEN Strip(SubSeq(s, 1, Len(s) - 1))
    ELSE s

(* float(s) on a text of sign, digits and at most one point (no exponent, no  *)
(* inf/nan, no underscore): [ok, v], v in hundredths.  The texts the model    *)
(* feeds it have at most two fractional digits, the precision of v.           *)
AllDigits(s) == \A j \in 1..Len(s) : IsDigit(s[j])

\* the unsigned part, split at the point p (Len + 1 when there is none)
FloatAt(body, p, negative) ==
    IF /\ \A j \in 1..Len(body) : body[j] = "." => j = p
       /\ AllDigits(SubSeq(body, 1, p - 1))
       /\ AllDigits(SubSeq(body, p + 1, Len(body)))
       /\ Len(body) >= 1 /\ body # <<".">>
    THEN [ok |-> TRUE,
          v |-> (IF negative THEN -1 ELSE 1) *
                (Scale * DigitsVal(SubSeq(body, 1, p - 1))
                 + DigitsVal(SubSeq(SubSeq(body, p + 1, Len(body)) \o <<"0", "0">>,
                                    1, 2)))]
    ELSE [ok |-> FALSE, v |-> 0]

FirstPoint(body) ==
    IF Has(body, ".")
    THEN CHOOSE j \in 1..Len(body) :
             body[j] = "." /\ \A m \in 1..(j - 1) : body[m] # "."
    ELSE Len(body) + 1

float(s) ==
    IF Len(s) > 0 /\ s[1] \in {"-", "+"}
    THEN FloatAt(Tail(s), FirstPoint(Tail(s)), s[1] = "-")
    ELSE FloatAt(s, FirstPoint(s), FALSE)

\* a raw amount-like value: None, a number, or a text
NoneVal == [k |-> "none", v |-> 0, s |-> <<>>]

Num(v) == [k |-> "num", v |-> v, s |-> <<>>]

Str(s) == [k |-> "str", v |-> 0, s |-> s]

\* the three attempts of _to_amount on the text s, spaces already removed
ParseAmount(s) ==
    IF float(s).ok THEN float(s).v
    ELSE IF Has(s, ",") /\ float(ReplaceCh(Remove(s, "."), ",", ".")).ok
         THEN float(ReplaceCh(Remove(s, "."), ",", ".")).v
    ELSE IF float(Remove(Remove(s, ","), ".")).ok
         THEN float(Remove(Remove(s, ","), ".")).v
    ELSE 0

_to_amount(raw) ==
    IF raw.k = "none" THEN 0
    ELSE IF raw.k = "num" THEN raw.v
    ELSE ParseAmount(Remove(Remove(Strip(raw.s), "nbsp"), " "))

-----------------------------------------------------------------------------
(* Date texts.  A date-like field is None/absent, the empty text, a text   *)
(* that is no ISO date, or an ISO date or date-time: its day, its time of  *)
(* day, the separator before the time ("" for a plain date, "T" or " ")    *)
(* and the zone suffix ("", "Z" or an offset).                             *)

NoText == [k |-> "none", day |-> 0, tod |-> 0, sep |-> "", zone |-> ""]

EmptyText == [k |-> "empty", day |-> 0, tod |-> 0, sep |-> "", zone |-> ""]

BadText == [k |-> "bad", day |-> 0, tod |-> 0, sep |-> "", zone |-> ""]

DateText(day) == [k |-> "iso", day |-> day, tod |-> 0, sep |-> "", zone |-> ""]

DateTimeText(day, tod, sep, zone) ==
    [k |-> "iso", day |-> day, tod |-> tod, sep |-> sep, zone |-> zone]

\* Python truthiness of a field value: None and "" are falsy
Falsy(s) == s.k \in {"none", "empty"}

_parse_date(s) ==
    IF Falsy(s) THEN None
    ELSE IF s.k = "bad" THEN None
    ELSE IF s.sep = "T" THEN Dt(s.day, s.tod)
    ELSE [day |-> s.day, tod |-> s.tod, aware |-> s.zone # ""]

\* datetime.strptime(report_date_str, DATE_FMT): [ok, dt]
strptime(s) ==
    IF s.k = "iso" /\ s.sep = "" THEN [ok |-> TRUE, dt |-> Dt(s.day, 0)]
    ELSE [ok |-> FALSE, dt |-> None]

-----------------------------------------------------------------------------
(* Raw records and the timeline *)

\* a description-like field: None/absent, a text, or a value that is no text
NoDesc == [k |-> "none", s |-> <<>>]

Desc(s) == [k |-> "str", s |-> s]

NotAText == [k |-> "num", s |-> <<>>]

Rec(date, voucherDate, balance, amount) ==
    [date |-> date, voucherDate |-> voucherDate, description |-> NoDesc,
     text |-> NoDesc, balance |-> balance, amount |-> amount]

\* ln.get("date") or ln.get("voucherDate")
ResolvedDate(ln) == IF Falsy(ln.date) THEN ln.voucherDate ELSE ln.date

DescFalsy(d) == d.k = "none" \/ (d.k = "str" /\ d.s = <<>>)

\* ln.get("description") or ln.get("text") or ""
ResolvedDesc(ln) ==
    IF ~DescFalsy(ln.description) THEN ln.description
    ELSE IF ~DescFalsy(ln.text) THEN ln.text
    ELSE Desc(<<>>)

AmountFalsy(a) ==
    a.k = "none" \/ (a.k = "num" /\ a.v = 0) \/ (a.k = "str" /\ a.s = <<>>)

\* ln.get("balance") if ln.get("balance") is not None else ln.get("amount") or 0
ResolvedAmount(ln) ==
    IF ln.balance.k # "none" THEN ln.balance
    ELSE IF AmountFalsy(ln.amount) THEN Num(0)
    ELSE ln.amount

Entry(ln) ==
    [date |-> _parse_date(ResolvedDate(ln)),
     description |-> Strip(ResolvedDesc(ln).s),
     amount |-> _to_amount(ResolvedAmount(ln))]

\* list.sort(key=date): stable, by < on the keys
RECURSIVE InsertByDate(_, _)
InsertByDate(sorted, x) ==
    IF sorted = <<>> THEN <<x>>
    ELSE IF DtLt(x.date, sorted[Len(sorted)].date)
         THEN Append(InsertByDate(SubSeq(sorted, 1, Len(sorted) - 1), x),
                     sorted[Len(sorted)])
         ELSE Append(sorted, x)

RECURSIVE SortByDate(_)
SortByDate(s) ==
    IF s = <<>> THEN <<>>
    ELSE InsertByDate(SortByDate(SubSeq(s, 1, Len(s) - 1)), s[Len(s)])

\* how a call ends: a value, or an exception and the function it left first
Ok(v) == [raised |-> FALSE, exc |-> "", at |-> "", value |-> v]

Raise(e, at) == [raised |-> TRUE, exc |-> e, at |-> at, value |-> <<>>]

\* out = [x for x in out if x["date"] is not None]; out.sort(key=...)
SortKept(kept) ==
    IF \E a, b \in 1..Len(kept) : CmpRaises(kept[a].date, kept[b].date)
    THEN Raise("TypeError", "build_timeline")
    ELSE Ok(SortByDate(kept))

build_timeline(ls) ==
    IF \E j \in 1..Len(ls) : ResolvedDesc(ls[j]).k = "num"
    THEN Raise("AttributeError", "build_timeline")
    ELSE SortKept(SelectSeq([j \in 1..Len(ls) |-> Entry(ls[j])],
                            LAMBDA x : x.date # None))

-----------------------------------------------------------------------------
(* Balance Calculator and the two copies of the FIFO matching pass *)

\* [t for t in timeline if t["date"] <= report_dt]
Upto(timeline, rdt) == SelectSeq(timeline, LAMBDA t : DtLe(t.date, rdt))

\* the comprehension raises TypeError on the first aware date it compares
UptoRaises(timeline, rdt) ==
    \E j \in 1..Len(timeline) : CmpRaises(timeline[j].date, rdt)

ending_balance(timeline, rdt) ==
    SumSeq([j \in 1..Len(Upto(timeline, rdt)) |-> Upto(timeline, rdt)[j].amount])

RemoveAt(s, j) == SubSeq(s, 1, j - 1) \o SubSeq(s, j + 1, Len(s))

\* deliberately wrong variant: the payment is taken from the newest invoice
RECURSIVE ConsumeNewestFirst(_, _, _)
ConsumeNewestFirst(open, pay, j) ==
    IF pay > 0 /\ open # <<>>
    THEN LET n == Len(open)
             take == Min(pay, open[n][2])
             inv_amt == open[n][2] - take
         IN  IF inv_amt <= Scale
             THEN ConsumeNewestFirst(SubSeq(open, 1, n - 1), pay - take, j)
             ELSE [open EXCEPT ![n] = <<open[n][1], inv_amt>>]
    ELSE open

\* the while loop of unpaid_invoice_over_50d; j is i + 1
RECURSIVE ConsumeInvoices(_, _, _)
ConsumeInvoices(open, pay, j) ==
    IF pay > 0 /\ j <= Len(open)
    THEN LET inv_date == open[j][1]
             take == Min(pay, open[j][2])
             inv_amt == open[j][2] - take
         IN  IF inv_amt <= Scale
             THEN ConsumeInvoices(RemoveAt(open, j), pay - take, j)
             ELSE ConsumeInvoices([open EXCEPT ![j] = <<inv_date, inv_amt>>],
                                  pay - take, j + 1)
    ELSE open

\* one iteration of the for loop of unpaid_invoice_over_50d
AgingStep(open, tx) ==
    IF tx.amount > 0 THEN Append(open, <<tx.date, tx.amount>>)
    ELSE IF tx.amount < 0 THEN ConsumeInvoices(open, -tx.amount, 1)
    ELSE open

AgingDays == 50

UnpaidFlag(day) == [flag |-> "Unpaid invoice >50d", date |-> day]

\* deliberately wrong variant: the cutoff taken exclusive
AgingFlagsExclusive(open, rdt) ==
    LET cutoff == MinusDays(rdt, AgingDays)
        due == SelectSeq(open, LAMBDA inv : DtLt(inv[1], cutoff) /\ inv[2] > Scale)
    IN  [j \in 1..Len(due) |-> UnpaidFlag(due[j][1].day)]

\* the flag loop of unpaid_invoice_over_50d; .date().isoformat() names the day
AgingFlags(open, rdt) ==
    LET cutoff == MinusDays(rdt, AgingDays)
        due == SelectSeq(open, LAMBDA inv : DtLe(inv[1], cutoff) /\ inv[2] > Scale)
    IN  [j \in 1..Len(due) |-> UnpaidFlag(due[j][1].day)]

RECURSIVE FoldAging(_, _)
FoldAging(open, txs) ==
    IF txs = <<>> THEN open ELSE FoldAging(AgingStep(open, txs[1]), Tail(txs))

unpaid_invoice_over_50d(timeline, rdt) ==
    AgingFlags(FoldAging(<<>>, Upto(timeline, rdt)), rdt)

\* deliberately wrong variant: a remainder of exactly 1.0 is kept open
RECURSIVE ConsumeAmtsExclusive(_, _, _)
ConsumeAmtsExclusive(open, pay, j) ==
    IF pay > 0 /\ j <= Len(open)
    THEN LET take == Min(pay, open[j])
             left == open[j] - take
         IN  IF left < Scale
             THEN ConsumeAmtsExclusive(RemoveAt(open, j), pay - take, j)
             ELSE ConsumeAmtsExclusive([open EXCEPT ![j] = left], pay - take, j + 1)
    ELSE open

\* the while loop of credit_balance_mismatch; j is i + 1
RECURSIVE ConsumeAmts(_, _, _)
ConsumeAmts(open, pay, j) ==
    IF pay > 0 /\ j <= Len(open)
    THEN LET take == Min(pay, open[j])
             left == open[j] - take
         IN  IF left <= Scale
             THEN ConsumeAmts(RemoveAt(open, j), pay - take, j)
             ELSE ConsumeAmts([open EXCEPT ![j] = left], pay - take, j + 1)
    ELSE open

\* one iteration of the for loop of credit_balance_mismatch
MismatchStep(open, tx) ==
    IF tx.amount > 0 THEN Append(open, tx.amount)
    ELSE IF tx.amount < 0 THEN ConsumeAmts(open, -tx.amount, 1)
    ELSE open

\* deliberately wrong variant: the tolerance of the closing loop taken exclusive
MismatchVerdictExclusive(open, bal) ==
    LET credit == -bal
    IN  ~ \E j \in 1..Len(open) : Abs(open[j] - credit) < Scale

\* the closing loop of credit_balance_mismatch
MismatchVerdict(open, bal) ==
    LET credit == -bal
    IN  ~ \E j \in 1..Len(open) : Abs(open[j] - credit) <= Scale

NotACredit(bal) == bal >= -Scale

RECURSIVE FoldMismatch(_, _)
FoldMismatch(open, txs) ==
    IF txs = <<>> THEN open ELSE FoldMismatch(MismatchStep(open, txs[1]), Tail(txs))

credit_balance_mismatch(timeline, rdt) ==
    LET bal == ending_balance(timeline, rdt)
    IN  IF NotACredit(bal) THEN FALSE
        ELSE MismatchVerdict(FoldMismatch(<<>>, Upto(timeline, rdt)), bal)

-----------------------------------------------------------------------------
(* Duplicate payments *)

\* f"{x:,.0f}": x rounded to a whole number, ties to even
Round0(a) ==
    LET q == a \div Scale
        r == a % Scale
    IN  IF 2 * r < Scale THEN q
        ELSE IF 2 * r > Scale THEN q + 1
        ELSE IF q % 2 = 0 THEN q ELSE q + 1

DuplicateFlag(amount, days, d1, d2) ==
    [flag |-> "Duplicate payment", amount |-> amount, days |-> days,
     first |-> d1, second |-> d2]

IsDuplicatePair(p, q) ==
    /\ Abs(p.amount - q.amount) <= Scale
    /\ Abs(DeltaDays(p.date, q.date)) >= 1
    /\ Abs(DeltaDays(p.date, q.date)) <= 2

\* the nested loops of duplicate_payments, from the pair (a, b) on
RECURSIVE PairFlags(_, _, _)
PairFlags(pays, a, b) ==
    IF a > Len(pays) THEN <<>>
    ELSE IF b > Len(pays) THEN PairFlags(pays, a + 1, a + 2)
    ELSE (IF IsDuplicatePair(pays[a], pays[b])
          THEN <<DuplicateFlag(Round0(Abs(pays[a].amount)),
                               Abs(DeltaDays(pays[a].date, pays[b].date)),
                               pays[a].date.day, pays[b].date.day)>>
          ELSE <<>>) \o PairFlags(pays, a, b + 1)

\* list(dict.fromkeys(flags))
RECURSIVE Dedup(_)
Dedup(s) ==
    IF s = <<>> THEN <<>>
    ELSE LET front == Dedup(SubSeq(s, 1, Len(s) - 1))
         IN  IF \E j \in 1..Len(front) : front[j] = s[Len(s)]
             THEN front ELSE Append(front, s[Len(s)])

Payments(timeline, rdt) ==
    SelectSeq(timeline, LAMBDA t : DtLe(t.date, rdt) /\ t.amount < 0)

duplicate_payments(timeline, rdt) == Dedup(PairFlags(Payments(timeline, rdt), 1, 2))

-----------------------------------------------------------------------------
(* Monthly pattern break *)

\* first day number of each month from 2024-12 on (2025 is no leap year)
MonthStart == <<0, 31, 62, 90, 121, 151, 182, 212, 243, 274, 304, 335, 365, 396>>

MonthOrd(day) == Cardinality({j \in 1..Len(MonthStart) : MonthStart[j] <= day})

\* d.year and d.month
YearOf(day) ==
    IF MonthOrd(day) = 1 THEN 2024 ELSE IF MonthOrd(day) <= 13 THEN 2025 ELSE 2026

MonthOf(day) == IF MonthOrd(day) = 1 THEN 12 ELSE ((MonthOrd(day) - 2) % 12) + 1

MonthIdx(ym) == ym[1] * 12 + ym[2]

YmLt(a, b) == a[1] < b[1] \/ (a[1] = b[1] /\ a[2] < b[2])

\* sorted(set)
RECURSIVE SortedMonths(_)
SortedMonths(S) ==
    IF S = {} THEN <<>>
    ELSE LET least == CHOOSE x \in S : \A y \in S : ~YmLt(y, x)
         IN  <<least>> \o SortedMonths(S \ {least})

ActiveMonths(timeline, rdt) ==
    SortedMonths({<<YearOf(Upto(timeline, rdt)[j].date.day),
                    MonthOf(Upto(timeline, rdt)[j].date.day)>> :
                  j \in 1..Len(Upto(timeline, rdt))})

is_consecutive(a, b) == MonthIdx(b) - MonthIdx(a) = 1

MinRun == 3

MinMonths == 4

GapToReport(last, rep_idx) == rep_idx - MonthIdx(last) >= 1

\* deliberately wrong variant: the tail run is not tested against the report month
TailRunAnyMonth(months, run_start, rep_idx) ==
    Len(months) - run_start >= MinRun

\* the tail-run test after the loop; run_start is 0-based as in the source
TailRun(months, run_start, rep_idx) ==
    /\ Len(months) - run_start >= MinRun
    /\ GapToReport(months[Len(months)], rep_idx)

\* the for loop of break_in_monthly_pattern from index i on (0-based i:
\* months[i] of the source is months[i + 1] here), then the tail-run test
RECURSIVE PatternScan(_, _, _, _)
PatternScan(months, i, run_start, rep_idx) ==
    IF i >= Len(months) THEN TailRun(months, run_start, rep_idx)
    ELSE IF ~is_consecutive(months[i], months[i + 1])
         THEN IF i - run_start >= MinRun /\ GapToReport(months[i], rep_idx)
              THEN TRUE
              ELSE PatternScan(months, i + 1, i, rep_idx)
         ELSE PatternScan(months, i + 1, run_start, rep_idx)

break_in_monthly_pattern(timeline, rdt) ==
    LET months == ActiveMonths(timeline, rdt)
    IN  IF Len(months) < MinMonths THEN FALSE
        ELSE PatternScan(months, 1, 0, MonthIdx(<<YearOf(rdt.day), MonthOf(rdt.day)>>))

-----------------------------------------------------------------------------
(* Inactive vendor with balance *)

MaxInactiveTx == 2

InactiveDays == 50

\* max(dates)
LastDate(txs) ==
    LET S == {txs[j].date : j \in 1..Len(txs)}
    IN  CHOOSE d \in S : \A e \in S : DtLe(e, d)

\* deliberately wrong variant: three transactions still count as few
inactive_with_balance_3(timeline, rdt) ==
    IF Len(Upto(timeline, rdt)) <= MaxInactiveTx + 1
    THEN IF Upto(timeline, rdt) = <<>> THEN FALSE
         ELSE LET age == DeltaDays(rdt, LastDate(Upto(timeline, rdt)))
                  bal == ending_balance(timeline, rdt)
              IN  age >= InactiveDays /\ Abs(bal) > Scale
    ELSE FALSE

inactive_with_balance(timeline, rdt) ==
    IF Len(Upto(timeline, rdt)) <= MaxInactiveTx
    THEN IF Upto(timeline, rdt) = <<>> THEN FALSE
         ELSE LET age == DeltaDays(rdt, LastDate(Upto(timeline, rdt)))
                  bal == ending_balance(timeline, rdt)
              IN  age >= InactiveDays /\ Abs(bal) > Scale
    ELSE FALSE

-----------------------------------------------------------------------------
(* review_vendor as one call *)

DebitFlag == [flag |-> "Vendor shows debit balance"]

MismatchFlag == [flag |-> "Credit balance != any open invoice"]

PatternFlag == [flag |-> "Break in monthly pattern"]

InactiveFlag == [flag |-> "Inactive vendor with non-zero balance"]

\* deliberately wrong variant: a balance of either sign counts as a debit
IsDebitEitherSign(bal) == Abs(bal) > Scale

IsDebit(bal) == bal > Scale

RedFlags(timeline, rdt) ==
    unpaid_invoice_over_50d(timeline, rdt)
    \o (IF IsDebit(ending_balance(timeline, rdt)) THEN <<DebitFlag>> ELSE <<>>)
    \o (IF credit_balance_mismatch(timeline, rdt) THEN <<MismatchFlag>> ELSE <<>>)
    \o duplicate_payments(timeline, rdt)

OrangeFlags(timeline, rdt) ==
    (IF break_in_monthly_pattern(timeline, rdt) THEN <<PatternFlag>> ELSE <<>>)
    \o (IF inactive_with_balance(timeline, rdt) THEN <<InactiveFlag>> ELSE <<>>)

Review(bal, r, o, timeline) ==
    [balance |-> bal, red |-> r, orange |-> o, timeline |-> timeline]

\* review_vendor from the built timeline on
ReviewBuilt(built, rdt) ==
    IF built.raised THEN built
    ELSE IF UptoRaises(built.value, rdt)
         THEN Raise("TypeError", "unpaid_invoice_over_50d")
    ELSE Ok(Review(ending_balance(built.value, rdt),
                   RedFlags(built.value, rdt),
                   OrangeFlags(built.value, rdt),
                   built.value))

review_vendor(ls, date_str) ==
    IF ~strptime(date_str).ok THEN Raise("ValueError", "review_vendor")
    ELSE ReviewBuilt(build_timeline(ls), strptime(date_str).dt)

-----------------------------------------------------------------------------
(* review_vendor step by step *)

\* deliberately wrong variant: the scan meets every invoice before any payment
ScannedInvoicesFirst ==
    SelectSeq(Upto(tl, report_dt), LAMBDA t : t.amount > 0)
    \o SelectSeq(Upto(tl, report_dt), LAMBDA t : t.amount <= 0)

\* the entries both matching scans go through
Scanned == Upto(tl, report_dt)

\* report_dt = datetime.strptime(report_date_str, DATE_FMT)
ParseReport ==
    /\ pc = "start"
    /\ IF strptime(report_date_str).ok
       THEN /\ report_dt' = strptime(report_date_str).dt
            /\ pc' = "build"
            /\ UNCHANGED result
       ELSE /\ result' = Raise("ValueError", "review_vendor")
            /\ pc' = "raised"
            /\ UNCHANGED report_dt
    /\ UNCHANGED <<lines, report_date_str, tl, red, orange, open_invoices,
                   open_amts, scan>>
    /\ UNCHANGED <<batchVars, calls>>

\* deliberately wrong variant: red and orange outlive the call
BuildTimelineKeepFlags ==
    /\ pc = "build"
    /\ IF build_timeline(lines).raised
       THEN /\ result' = build_timeline(lines)
            /\ pc' = "raised"
            /\ UNCHANGED tl
       ELSE /\ tl' = build_timeline(lines).value
            /\ pc' = "aging"
            /\ UNCHANGED result
    /\ UNCHANGED <<lines, report_date_str, report_dt, red, orange, open_invoices,
                   open_amts, scan>>
    /\ UNCHANGED <<batchVars, calls>>

\* tl = build_timeline(lines); red = []; orange = []
BuildTimeline ==
    /\ pc = "build"
    /\ IF build_timeline(lines).raised
       THEN /\ result' = build_timeline(lines)
            /\ pc' = "raised"
            /\ UNCHANGED tl
       ELSE /\ tl' = build_timeline(lines).value
            /\ pc' = "aging"
            /\ UNCHANGED result
    /\ red' = <<>>
    /\ orange' = <<>>
    /\ UNCHANGED <<lines, report_date_str, report_dt, open_invoices, open_amts, scan>>
    /\ UNCHANGED <<batchVars, calls>>

\* unpaid_invoice_over_50d up to the head of its for loop
AgingEnter ==
    /\ pc = "aging"
    /\ IF UptoRaises(tl, report_dt)
       THEN /\ result' = Raise("TypeError", "unpaid_invoice_over_50d")
            /\ pc' = "raised"
            /\ UNCHANGED <<open_invoices, scan>>
       ELSE /\ open_invoices' = <<>>
            /\ scan' = 1
            /\ pc' = "aging_scan"
            /\ UNCHANGED result
    /\ UNCHANGED <<lines, report_date_str, report_dt, tl, red, orange, open_amts>>
    /\ UNCHANGED <<batchVars, calls>>

\* one entry of the for loop of unpaid_invoice_over_50d
AgingScan ==
    /\ pc = "aging_scan"
    /\ scan <= Len(Scanned)
    /\ open_invoices' = AgingStep(open_invoices, Scanned[scan])
    /\ scan' = scan + 1
    /\ UNCHANGED <<lines, report_date_str, pc, report_dt, tl, red, orange,
                   open_amts, result>>
    /\ UNCHANGED <<batchVars, calls>>

\* the flag loop, and red += ...
AgingEmit ==
    /\ pc = "aging_scan"
    /\ scan > Len(Scanned)
    /\ red' = red \o AgingFlags(open_invoices, report_dt)
    /\ pc' = "debit"
    /\ UNCHANGED <<lines, report_date_str, report_dt, tl, orange, open_invoices,
                   open_amts, scan, result>>
    /\ UNCHANGED <<batchVars, calls>>

\* deliberately wrong variant: the debit flag put at the head of red
DebitBalanceFirst ==
    /\ pc = "debit"
    /\ red' = IF IsDebit(ending_balance(tl, report_dt))
              THEN <<DebitFlag>> \o red ELSE red
    /\ pc' = "mismatch"
    /\ UNCHANGED <<lines, report_date_str, report_dt, tl, orange, open_invoices,
                   open_amts, scan, result>>
    /\ UNCHANGED <<batchVars, calls>>

\* if ending_balance(tl, report_dt) > 1.0: red.append(...)
DebitBalance ==
    /\ pc = "debit"
    /\ red' = IF IsDebit(ending_balance(tl, report_dt))
              THEN Append(red, DebitFlag) ELSE red
    /\ pc' = "mismatch"
    /\ UNCHANGED <<lines, report_date_str, report_dt, tl, orange, open_invoices,
                   open_amts, scan, result>>
    /\ UNCHANGED <<batchVars, calls>>

\* credit_balance_mismatch up to the head of its for loop
MismatchEnter ==
    /\ pc = "mismatch"
    /\ IF NotACredit(ending_balance(tl, report_dt))
       THEN /\ pc' = "duplicates"
            /\ UNCHANGED <<open_amts, scan>>
       ELSE /\ open_amts' = <<>>
            /\ scan' = 1
            /\ pc' = "mismatch_scan"
    /\ UNCHANGED <<lines, report_date_str, report_dt, tl, red, orange,
                   open_invoices, result>>
    /\ UNCHANGED <<batchVars, calls>>

\* one entry of the for loop of credit_balance_mismatch
MismatchScan ==
    /\ pc = "mismatch_scan"
    /\ scan <= Len(Scanned)
    /\ open_amts' = MismatchStep(open_amts, Scanned[scan])
    /\ scan' = scan + 1
    /\ UNCHANGED <<lines, report_date_str, pc, report_dt, tl, red, orange,
                   open_invoices, result>>
    /\ UNCHANGED <<batchVars, calls>>

\* the closing loop, and if credit_balance_mismatch(...): red.append(...)
MismatchDecide ==
    /\ pc = "mismatch_scan"
    /\ scan > Len(Scanned)
    /\ red' = IF MismatchVerdict(open_amts, ending_balance(tl, report_dt))
              THEN Append(red, MismatchFlag) ELSE red
    /\ pc' = "duplicates"
    /\ UNCHANGED <<lines, report_date_str, report_dt, tl, orange, open_invoices,
                   open_amts, scan, result>>
    /\ UNCHANGED <<batchVars, calls>>

\* red += duplicate_payments(tl, report_dt)
Duplicates ==
    /\ pc = "duplicates"
    /\ red' = red \o duplicate_payments(tl, report_dt)
    /\ pc' = "pattern"
    /\ UNCHANGED <<lines, report_date_str, report_dt, tl, orange, open_invoices,
                   open_amts, scan, result>>
    /\ UNCHANGED <<batchVars, calls>>

\* if break_in_monthly_pattern(tl, report_dt): orange.append(...)
PatternBreak ==
    /\ pc = "pattern"
    /\ orange' = IF break_in_monthly_pattern(tl, report_dt)
                 THEN Append(orange, PatternFlag) ELSE orange
    /\ pc' = "inactive"
    /\ UNCHANGED <<lines, report_date_str, report_dt, tl, red, open_invoices,
                   open_amts, scan, result>>
    /\ UNCHANGED <<batchVars, calls>>

\* if inactive_with_balance(tl, report_dt): orange.append(...)
Inactive ==
    /\ pc = "inactive"
    /\ orange' = IF inactive_with_balance(tl, report_dt)
                 THEN Append(orange, InactiveFlag) ELSE orange
    /\ pc' = "return"
    /\ UNCHANGED <<lines, report_date_str, report_dt, tl, red, open_invoices,
                   open_amts, scan, result>>
    /\ UNCHANGED <<batchVars, calls>>

\* bal = ending_balance(tl, report_dt); return {...}
Return ==
    /\ pc = "return"
    /\ result' = Ok(Review(ending_balance(tl, report_dt), red, orange, tl))
    /\ pc' = "done"
    /\ UNCHANGED <<lines, report_date_str, report_dt, tl, red, orange,
                   open_invoices, open_amts, scan>>
    /\ UNCHANGED <<batchVars, calls>>

NextReview ==
    \/ ParseReport
    \/ BuildTimeline
    \/ AgingEnter
    \/ AgingScan
    \/ AgingEmit
    \/ DebitBalance
    \/ MismatchEnter
    \/ MismatchScan
    \/ MismatchDecide
    \/ Duplicates
    \/ PatternBreak
    \/ Inactive
    \/ Return

-----------------------------------------------------------------------------
(* Inputs *)

SeqsUpTo(S, n) == UNION {[1..m -> S] : m \in 0..n}

IdleBatch ==
    /\ vendors = <<>>
    /\ vi = 0
    /\ fetched = <<>>
    /\ rows = <<>>
    /\ details = <<>>
    /\ errors = <<>>
    /\ bpc = "idle"
    /\ returned = None

\* a call in progress, as the record of it in calls
Running(ls, date_str) ==
    [given |-> ls, date |-> date_str, after |-> None, result |-> None]

\* review_vendor entered with its arguments bound and nothing else
Entered ==
    /\ pc = "start"
    /\ report_dt = None
    /\ tl = <<>>
    /\ red = <<>>
    /\ orange = <<>>
    /\ open_invoices = <<>>
    /\ open_amts = <<>>
    /\ scan = 0
    /\ result = None
    /\ calls = <<Running(lines, report_date_str)>>
    /\ IdleBatch

InitReview(Records, Reports, n) ==
    /\ lines \in SeqsUpTo(Records, n)
    /\ report_date_str \in Reports
    /\ Entered

\* a record as the API sends it: a date or a UTC date-time, the amount under
\* 'balance'
Tx(date, amt) == Rec(date, NoText, Num(amt), NoneVal)

Utc(day, tod) == DateTimeText(day, tod, "T", "Z")

\* records with times of day around two report dates (day 3 and day 60)
TimedRecords ==
    { Tx(DateText(0), 300),
      Tx(Utc(0, 5), -200),
      Tx(Utc(0, 10), -200),
      Tx(DateText(1), -300),
      Tx(Utc(2, 10), -200),
      Tx(DateText(2), 350),
      Tx(Utc(60, 10), 500) }

TimedReports == {DateText(3), DateText(60)}

Init == InitReview(TimedRecords, TimedReports, MaxLines)

Spec == Init /\ [][NextReview]_vars

\* records with plain calendar dates around two report dates (day 50 and day 51)
PlainRecords ==
    { Tx(DateText(0), 300),
      Tx(DateText(0), 100),
      Tx(DateText(0), -300),
      Tx(DateText(1), 300),
      Tx(DateText(1), -150),
      Tx(DateText(2), -200),
      Tx(DateText(60), 300) }

PlainReports == {DateText(50), DateText(51)}

InitPlain == InitReview(PlainRecords, PlainReports, MaxLines)

SpecPlain == InitPlain /\ [][NextReview]_vars

\* one record in each of 2024-12, 2025-01, 2025-02, 2025-03 and 2025-05, and
\* report dates in 2025-03, 2025-04 and 2025-05
MonthlyRecords ==
    { Tx(DateText(10), 300),
      Tx(DateText(40), -200),
      Tx(DateText(70), 300),
      Tx(DateText(100), -450),
      Tx(DateText(160), 300) }

MonthlyReports == {DateText(100), DateText(130), DateText(160)}

InitMonths == InitReview(MonthlyRecords, MonthlyReports, MaxMonthLines)

SpecMonths == InitMonths /\ [][NextReview]_vars

\* records with missing, empty, malformed and zoned date texts, alternate keys
\* and amounts as texts
RawRecords ==
    { Rec(DateText(0), NoText, Num(300), NoneVal),
      Rec(NoText, DateText(1), Str(<<"x">>), Num(300)),
      Rec(EmptyText, DateText(2), NoneVal,
          Str(<<"1", ".", "2", "3", "4", ",", "5", "6">>)),
      Rec(BadText, DateText(1), Num(300), NoneVal),
      Rec(NoText, NoText, Num(-300), NoneVal),
      Rec(DateTimeText(0, 10, " ", "+00:00"), NoText, Num(-200), NoneVal),
      Rec(Utc(0, 10), NoText, Str(<<" ", "-", "2", ",", "5", "0", " ">>), NoneVal) }

RawReports == {DateText(60), BadText}

InitRaw == InitReview(RawRecords, RawReports, MaxLines)

SpecRaw == InitRaw /\ [][NextReview]_vars

\* invoices and payments around the 1.0 tolerance: part payments, payments
\* larger than what is open, invoices of 0.50
SmallRecords ==
    { Tx(DateText(0), 300),
      Tx(DateText(0), 250),
      Tx(DateText(1), -150),
      Tx(DateText(1), -300),
      Tx(DateText(2), 50),
      Tx(DateText(2), -450),
      Tx(DateText(3), 50) }

SmallReports == {DateText(2), DateText(3)}

InitSmall == InitReview(SmallRecords, SmallReports, MaxLines)

SpecSmall == InitSmall /\ [][NextReview]_vars

-----------------------------------------------------------------------------
(* Several review_vendor calls in a row.  Nothing of review_vendor lives     *)
(* outside the call, so a new call starts with whatever the previous one     *)
(* left in the locals and must assign each of them before reading it.        *)

MaxCalls == 3

Ended == pc \in {"done", "raised"}

\* the running call has ended: what it returned or raised, and the records
\* as the caller finds them afterwards
Finished ==
    /\ Ended
    /\ calls[Len(calls)].result = None
    /\ calls' = [calls EXCEPT ![Len(calls)].after = lines,
                              ![Len(calls)].result = result]
    /\ UNCHANGED reviewVars
    /\ UNCHANGED batchVars

CallInputs ==
    { <<>>,
      <<Tx(DateText(0), 300)>>,
      <<Tx(DateText(0), 300), Tx(Utc(0, 10), -200)>>,
      <<Tx(DateText(2), 350), Tx(DateText(1), -300), Tx(DateText(1), -300)>> }

CallReports == {DateText(3), DateText(60)}

\* the next call of review_vendor
CallAgain ==
    /\ Ended
    /\ calls[Len(calls)].result # None
    /\ Len(calls) < MaxCalls
    /\ \E ls \in CallInputs, date_str \in CallReports :
           /\ lines' = ls
           /\ report_date_str' = date_str
           /\ calls' = Append(calls, Running(ls, date_str))
    /\ pc' = "start"
    /\ UNCHANGED <<report_dt, tl, red, orange, open_invoices, open_amts, scan,
                   result>>
    /\ UNCHANGED batchVars

NextCalls ==
    \/ NextReview
    \/ Finished
    \/ CallAgain

InitCalls ==
    /\ lines \in CallInputs
    /\ report_date_str \in CallReports
    /\ Entered

SpecCalls == InitCalls /\ [][NextCalls]_vars

-----------------------------------------------------------------------------
(* run_full_review (src/app_streamlit.py) *)

\* v.get("name", vid); names are numbered in their sort order
Vendor(id, name) == [id |-> id, name |-> name]

\* pd.DataFrame(rows).sort_values("Vendor")
RECURSIVE InsertByVendor(_, _)
InsertByVendor(sorted, row) ==
    IF sorted = <<>> THEN <<row>>
    ELSE IF row.Vendor < sorted[Len(sorted)].Vendor
         THEN Append(InsertByVendor(SubSeq(sorted, 1, Len(sorted) - 1), row),
                     sorted[Len(sorted)])
         ELSE Append(sorted, row)

RECURSIVE SortByVendor(_)
SortByVendor(rs) ==
    IF rs = <<>> THEN <<>>
    ELSE InsertByVendor(SortByVendor(SubSeq(rs, 1, Len(rs) - 1)), rs[Len(rs)])

\* a frame built from no rows has no column "Vendor": sort_values raises KeyError
sort_values(rs) ==
    IF rs = <<>> THEN Raise("KeyError", "run_full_review")
    ELSE Ok(SortByVendor(rs))

\* what the statement endpoint may answer for a vendor
Statements ==
    { <<>>,
      <<Tx(DateText(0), 300)>>,
      <<Tx(DateText(0), 300), Tx(DateText(2), -450)>>,
      <<Rec(DateTimeText(0, 10, " ", "+00:00"), NoText, Num(-200), NoneVal)>> }

NextVendor ==
    /\ vi' = vi + 1
    /\ bpc' = "fetch"

\* lines = fetch_vendor_statement(...), first try
Fetch ==
    /\ bpc = "fetch"
    /\ vi <= Len(vendors)
    /\ \/ \E st \in Statements : fetched' = st /\ bpc' = "review"
       \/ fetched' = fetched /\ bpc' = "retry"
    /\ UNCHANGED <<vendors, vi, rows, details, errors, returned>>
    /\ UNCHANGED <<reviewVars, calls>>

\* the retry in the except branch
Retry ==
    /\ bpc = "retry"
    /\ \/ /\ \E st \in Statements : fetched' = st
          /\ bpc' = "review"
          /\ UNCHANGED <<vi, errors>>
       \/ /\ errors' = Append(errors, <<vendors[vi].name, "fetch error">>)
          /\ NextVendor
          /\ UNCHANGED fetched
    /\ UNCHANGED <<vendors, rows, details, returned>>
    /\ UNCHANGED <<reviewVars, calls>>

\* review = review_vendor(lines, report_date_iso), and the row or the error
ReviewFetched ==
    /\ bpc = "review"
    /\ \E review \in {review_vendor(fetched, report_date_str)} :
           IF review.raised
           THEN /\ errors' = Append(errors, <<vendors[vi].name, "review error">>)
                /\ UNCHANGED <<rows, details>>
           ELSE /\ details' = (vendors[vi].id :> review.value) @@ details
                /\ rows' = Append(rows, [Vendor |-> vendors[vi].name,
                                         Balance |-> review.value.balance,
                                         Red |-> review.value.red,
                                         Orange |-> review.value.orange,
                                         id |-> vendors[vi].id])
                /\ UNCHANGED errors
    /\ NextVendor
    /\ UNCHANGED <<vendors, fetched, returned>>
    /\ UNCHANGED <<reviewVars, calls>>

\* after the loop: df = pd.DataFrame(rows).sort_values("Vendor"); return
Finish ==
    /\ bpc = "fetch"
    /\ vi > Len(vendors)
    /\ \E df \in {sort_values(rows)} :
           returned' = IF df.raised THEN df
                       ELSE Ok([df |-> df.value, details |-> details,
                                errors |-> errors])
    /\ bpc' = "done"
    /\ UNCHANGED <<vendors, vi, fetched, rows, details, errors>>
    /\ UNCHANGED <<reviewVars, calls>>

NextBatch ==
    \/ Fetch
    \/ Retry
    \/ ReviewFetched
    \/ Finish

VendorSet == {Vendor(1, 2), Vendor(2, 1), Vendor(3, 3)}

VendorLists ==
    {vs \in SeqsUpTo(VendorSet, MaxVendors) :
        \A a, b \in 1..Len(vs) : a # b => vs[a] # vs[b]}

InitBatch ==
    /\ vendors \in VendorLists
    /\ report_date_str = DateText(60)
    /\ vi = 1
    /\ fetched = <<>>
    /\ rows = <<>>
    /\ details = <<>>
    /\ errors = <<>>
    /\ bpc = "fetch"
    /\ returned = None
    /\ calls = <<>>
    /\ lines = <<>>
    /\ pc = "idle"
    /\ report_dt = None
    /\ tl = <<>>
    /\ red = <<>>
    /\ orange = <<>>
    /\ open_invoices = <<>>
    /\ open_amts = <<>>
    /\ scan = 0
    /\ result = None

SpecBatch == InitBatch /\ [][NextBatch]_vars

-----------------------------------------------------------------------------
(* What the claims speak about, stated without the code's loops *)

Returned == pc = "done"

Range(s) == {s[j] : j \in 1..Len(s)}

Count(s, x) == Cardinality({j \in 1..Len(s) : s[j] = x})

\* a record's calendar date: the day of its date text, time and zone dropped
DateParses(ln) == _parse_date(ResolvedDate(ln)) # None

CalendarDay(ln) == ResolvedDate(ln).day

\* the entries of a timeline dated at or before the report date
Dated(timeline, rdt) == {j \in 1..Len(timeline) : ~DtLt(rdt, timeline[j].date)}

RECURSIVE SumOver(_, _)
SumOver(timeline, J) ==
    IF J = {} THEN 0
    ELSE LET j == CHOOSE x \in J : TRUE
         IN  timeline[j].amount + SumOver(timeline, J \ {j})

BalanceAt(timeline, rdt) == SumOver(timeline, Dated(timeline, rdt))

(* FIFO matching, oldest invoice first: a payment settles the oldest open  *)
(* invoice when it brings it within 1.0, and goes on to the next with what *)
(* is left of it; otherwise it only reduces that invoice.                  *)
RECURSIVE PayOldestFirst(_, _)
PayOldestFirst(ledger, pay) ==
    IF ledger = <<>> \/ pay <= 0 THEN ledger
    ELSE IF Head(ledger).amount - pay <= Scale
         THEN PayOldestFirst(Tail(ledger),
                             IF pay > Head(ledger).amount
                             THEN pay - Head(ledger).amount ELSE 0)
         ELSE <<[Head(ledger) EXCEPT !.amount = @ - pay]>> \o Tail(ledger)

RECURSIVE OpenLedger(_)
OpenLedger(txs) ==
    IF txs = <<>> THEN <<>>
    ELSE LET before == OpenLedger(SubSeq(txs, 1, Len(txs) - 1))
             tx == txs[Len(txs)]
         IN  IF tx.amount > 0
             THEN Append(before, [date |-> tx.date, amount |-> tx.amount])
             ELSE IF tx.amount < 0 THEN PayOldestFirst(before, -tx.amount)
             ELSE before

\* the ledger left open by the matching pass over the entries up to the report date
OpenAt(timeline, rdt) ==
    OpenLedger(SelectSeq(timeline, LAMBDA t : ~DtLt(rdt, t.date)))

-----------------------------------------------------------------------------
(* C1: the balance review_vendor returns is the sum of the amounts of all  *)
(* records whose date parses and whose calendar date, time of day and zone *)
(* dropped, is on or before the report date; a record stamped on the       *)
(* report date itself is counted at any time of day.                       *)
C1_BalanceByCalendarDate ==
    Returned =>
        LET counted == SelectSeq(lines, LAMBDA ln :
                           DateParses(ln) /\ CalendarDay(ln) <= report_dt.day)
        IN  result.value.balance =
                SumSeq([j \in 1..Len(counted) |->
                           _to_amount(ResolvedAmount(counted[j]))])

-----------------------------------------------------------------------------
(* C3: duplicate_payments flags a pair of entries if and only if both are  *)
(* payments dated at or before the report date, their amounts differ by at *)
(* most 1.0 and their calendar days are 1 or 2 apart; payments of the same *)
(* calendar day are never flagged, and a pair is flagged once.             *)
CalendarPairs(timeline, rday) ==
    {<<a, b>> \in (1..Len(timeline)) \X (1..Len(timeline)) :
        /\ a < b
        /\ timeline[a].amount < 0 /\ timeline[b].amount < 0
        /\ timeline[a].date.day <= rday /\ timeline[b].date.day <= rday
        /\ Abs(timeline[a].amount - timeline[b].amount) <= Scale
        /\ Abs(timeline[b].date.day - timeline[a].date.day) \in {1, 2}}

\* C3: the duplicate-payment flags are exactly those of the pairs of payments
\* of like amount whose calendar dates are one or two days apart
C3_DuplicateIffCalendarGap ==
    Returned =>
        LET dups == SelectSeq(result.value.red,
                              LAMBDA f : f.flag = "Duplicate payment")
        IN  /\ Range(dups) =
                 {DuplicateFlag(Round0(Abs(tl[p[1]].amount)),
                                Abs(tl[p[2]].date.day - tl[p[1]].date.day),
                                tl[p[1]].date.day, tl[p[2]].date.day) :
                  p \in CalendarPairs(tl, report_dt.day)}
            /\ \A f \in Range(dups) : Count(dups, f) = 1 /\ f.first # f.second

-----------------------------------------------------------------------------
(* C4: credit_balance_mismatch is true if and only if the ending balance   *)
(* is below -1.0 and no invoice left open by the FIFO matching pass over   *)
(* the entries up to the report date has a remaining amount within 1.0 of  *)
(* the magnitude of that balance.                                          *)
MismatchDecided == pc = "duplicates"

MismatchExpected(timeline, rdt) ==
    /\ BalanceAt(timeline, rdt) < -Scale
    /\ \A j \in 1..Len(OpenAt(timeline, rdt)) :
           Abs(OpenAt(timeline, rdt)[j].amount + BalanceAt(timeline, rdt)) > Scale

\* C4: the credit-mismatch flag is raised if and only if the balance is a
\* credit below -1.0 and no open invoice is within 1.0 of it
C4_CreditMismatchIff ==
    MismatchDecided =>
        ((Count(red, MismatchFlag) = 1) <=> MismatchExpected(tl, report_dt))
        /\ Count(red, MismatchFlag) <= 1

\* a credit explained by an open invoice, and a credit no open invoice explains
C4_Witness ==
    /\ MismatchDecided
    /\ BalanceAt(tl, report_dt) < -Scale
    /\ OpenAt(tl, report_dt) # <<>>
    /\ Count(red, MismatchFlag) = 0

C4_WitnessFlagged ==
    /\ MismatchDecided
    /\ BalanceAt(tl, report_dt) < -Scale
    /\ OpenAt(tl, report_dt) # <<>>
    /\ Count(red, MismatchFlag) = 1

-----------------------------------------------------------------------------
(* C7: red is the aging flags, then the debit flag iff the balance exceeds *)
(* 1.0, then the mismatch flag iff credit_balance_mismatch holds, then the *)
(* duplicate flags; orange is the pattern flag iff the pattern breaks,     *)
(* then the inactivity flag iff the vendor is inactive with a balance.     *)
Rank(f) ==
    CASE f.flag = "Unpaid invoice >50d" -> 1
      [] f = DebitFlag -> 2
      [] f = MismatchFlag -> 3
      [] f.flag = "Duplicate payment" -> 4
      [] f = PatternFlag -> 5
      [] f = InactiveFlag -> 6

Ordered(s) == \A a, b \in 1..Len(s) : a < b => Rank(s[a]) <= Rank(s[b])

OfRank(s, n) == SelectSeq(s, LAMBDA f : Rank(f) = n)

Once(c) == IF c THEN 1 ELSE 0

\* C7: red lists aging, debit, mismatch, duplicates in that order and orange
\* lists pattern break, inactivity in that order
C7_FlagOrder ==
    Returned =>
        LET r == result.value.red
            o == result.value.orange
        IN  /\ Ordered(r) /\ Ordered(o)
            /\ \A j \in 1..Len(r) : Rank(r[j]) \in 1..4
            /\ \A j \in 1..Len(o) : Rank(o[j]) \in 5..6
            /\ OfRank(r, 1) = unpaid_invoice_over_50d(tl, report_dt)
            /\ Len(OfRank(r, 2)) = Once(BalanceAt(tl, report_dt) > Scale)
            /\ Len(OfRank(r, 3)) = Once(credit_balance_mismatch(tl, report_dt))
            /\ OfRank(r, 4) = duplicate_payments(tl, report_dt)
            /\ Len(OfRank(o, 5)) = Once(break_in_monthly_pattern(tl, report_dt))
            /\ Len(OfRank(o, 6)) = Once(inactive_with_balance(tl, report_dt))

\* a result whose red list holds flags of two rules and whose orange list one
C7_Witness ==
    /\ Returned
    /\ Cardinality({Rank(f) : f \in Range(result.value.red)}) >= 2
    /\ result.value.orange # <<>>

C7_WitnessThreeRules ==
    /\ Returned
    /\ Cardinality({Rank(f) : f \in Range(result.value.red)}) >= 3

-----------------------------------------------------------------------------
(* C8: build_timeline's output is sorted ascending by date, and entries of *)
(* the same calendar date keep the relative order of their records in the  *)
(* input, whatever the order of the input.                                 *)
Built == pc = "aging"

KeptInInputOrder ==
    SelectSeq([j \in 1..Len(lines) |-> Entry(lines[j])], LAMBDA x : x.date # None)

OfDay(s, d) == SelectSeq(s, LAMBDA x : x.date.day = d)

\* C8: the timeline is in non-decreasing calendar-date order and entries of
\* the same calendar date keep their input order
C8_SortedAndStableByCalendarDate ==
    Built =>
        /\ \A a, b \in 1..Len(tl) : a < b => tl[a].date.day <= tl[b].date.day
        /\ \A d \in {x.date.day : x \in Range(KeptInInputOrder)} :
               OfDay(tl, d) = OfDay(KeptInInputOrder, d)

-----------------------------------------------------------------------------
(* C2: on a timeline of plain calendar dates unpaid_invoice_over_50d emits *)
(* exactly one flag, in ledger order and naming the invoice date, for each *)
(* entry left open by the FIFO matching pass that is dated at or before    *)
(* the report date minus 50 days and has more than 1.0 remaining: 50 days  *)
(* old is flagged, 49 days old and dated after the report date are not.    *)
AgingDone == pc = "debit"

PlainDates(timeline) == \A j \in 1..Len(timeline) : timeline[j].date.tod = 0

Overdue(e, rdt) == e.date.day + 50 <= rdt.day /\ e.amount > Scale

ExpectedUnpaid(timeline, rdt) ==
    LET due == SelectSeq(OpenAt(timeline, rdt), LAMBDA e : Overdue(e, rdt))
    IN  [j \in 1..Len(due) |-> UnpaidFlag(due[j].date.day)]

\* C2: on plain calendar dates the aging flags in red are exactly one flag,
\* in ledger order and naming the invoice date, per invoice left open by the
\* oldest-first matching, dated on or before report date - 50 days, above 1.0
C2_AgingFlags ==
    (AgingDone /\ PlainDates(tl)) => red = ExpectedUnpaid(tl, report_dt)

\* an open invoice exactly 50 days old, flagged, beside one 49 days old, not flagged
C2_Witness ==
    /\ AgingDone /\ PlainDates(tl)
    /\ \E e \in Range(OpenAt(tl, report_dt)) :
           e.date.day + 50 = report_dt.day /\ UnpaidFlag(e.date.day) \in Range(red)
    /\ \E e \in Range(OpenAt(tl, report_dt)) :
           /\ e.date.day + 49 = report_dt.day /\ e.amount > Scale
           /\ UnpaidFlag(e.date.day) \notin Range(red)

-----------------------------------------------------------------------------
(* C6: on a timeline of plain calendar dates inactive_with_balance is true *)
(* if and only if 1 or 2 entries are dated at or before the report date,   *)
(* the most recent of them is at least 50 days before it, and the          *)
(* magnitude of the ending balance exceeds 1.0.                            *)
InactiveDecided == pc = "return"

InactiveExpected(timeline, rdt) ==
    /\ Cardinality(Dated(timeline, rdt)) \in {1, 2}
    /\ \A j \in Dated(timeline, rdt) : timeline[j].date.day + 50 <= rdt.day
    /\ Abs(BalanceAt(timeline, rdt)) > Scale

\* C6: on plain calendar dates the inactivity flag is raised if and only if 1
\* or 2 entries are dated up to the report date, the latest of them 50 days
\* or more before it, and the balance magnitude exceeds 1.0
C6_InactiveIff ==
    (InactiveDecided /\ PlainDates(tl)) =>
        /\ (Count(orange, InactiveFlag) = 1) <=> InactiveExpected(tl, report_dt)
        /\ Count(orange, InactiveFlag) <= 1

\* two transactions, the later one exactly 50 days before the report date
C6_Witness ==
    /\ InactiveDecided /\ PlainDates(tl)
    /\ Cardinality(Dated(tl, report_dt)) = 2
    /\ \E j \in Dated(tl, report_dt) : tl[j].date.day + 50 = report_dt.day
    /\ Count(orange, InactiveFlag) = 1

-----------------------------------------------------------------------------
(* C5: break_in_monthly_pattern is true if and only if the entries dated   *)
(* at or before the report date fall in at least 4 distinct months and     *)
(* these contain a maximal run of 3 or more consecutive months that ends   *)
(* at least one month before the report month; the run ending at the last  *)
(* observed month is held to the same condition.                           *)
PatternDecided == pc = "inactive"

MonthIndexOf(day) == YearOf(day) * 12 + MonthOf(day)

MonthsActive(timeline, rdt) ==
    {MonthIndexOf(timeline[j].date.day) : j \in Dated(timeline, rdt)}

\* lo..hi is a maximal run of consecutive active months
MaximalRun(M, lo, hi) ==
    /\ \A m \in lo..hi : m \in M
    /\ (lo - 1) \notin M
    /\ (hi + 1) \notin M

PatternExpected(timeline, rdt) ==
    LET M == MonthsActive(timeline, rdt)
    IN  /\ Cardinality(M) >= 4
        /\ \E lo, hi \in M :
               /\ MaximalRun(M, lo, hi)
               /\ hi - lo + 1 >= 3
               /\ MonthIndexOf(rdt.day) - hi >= 1

C5_WitnessNoGap ==
    /\ PatternDecided
    /\ Cardinality(MonthsActive(tl, report_dt)) = 4
    /\ \E lo \in MonthsActive(tl, report_dt) :
           MaximalRun(MonthsActive(tl, report_dt), lo, lo + 3)
           /\ lo + 3 = MonthIndexOf(report_dt.day)
    /\ Count(orange, PatternFlag) = 0

-----------------------------------------------------------------------------
(* C9: build_timeline never fails on a malformed field of a record: a      *)
(* record is absent from the timeline if and only if its resolved date     *)
(* (date, else voucherDate) is missing or unparseable, every other record  *)
(* yields one entry, and a record whose amount cannot be parsed is kept    *)
(* with amount 0.0.                                                        *)
BuildActed ==
    /\ pc \notin {"idle", "start", "build"}
    /\ ~(pc = "raised" /\ result.at = "review_vendor")

NoNumberIn(s) ==
    /\ ~float(s).ok
    /\ ~float(ReplaceCh(Remove(s, "."), ",", ".")).ok
    /\ ~float(Remove(Remove(s, ","), ".")).ok

AmountUnparseable(ln) ==
    /\ ResolvedAmount(ln).k = "str"
    /\ NoNumberIn(Remove(Remove(Strip(ResolvedAmount(ln).s), "nbsp"), " "))

\* C9: build_timeline does not fail; the timeline has one entry per record
\* with a parseable resolved date, an unparseable amount being kept as 0.0
C9_MalformedFieldNeverPropagated ==
    BuildActed =>
        /\ ~(pc = "raised" /\ result.at = "build_timeline")
        /\ Len(tl) = Cardinality({j \in 1..Len(lines) : DateParses(lines[j])})
        /\ \A j \in 1..Len(lines) :
               (DateParses(lines[j]) /\ AmountUnparseable(lines[j])) =>
                   \E e \in Range(tl) :
                       e.date = _parse_date(ResolvedDate(lines[j])) /\ e.amount = 0

-----------------------------------------------------------------------------
(* C10: whatever the vendor list and whichever fetches and reviews fail,   *)
(* run_full_review processes every vendor and returns (table, details,     *)
(* errors), each vendor being one row or one error.                        *)
BatchEnded == bpc = "done"

\* C10: run_full_review returns its result and rows + errors = number of
\* vendors, for every vendor list and every pattern of failures
C10_BatchAlwaysReturns ==
    BatchEnded =>
        /\ ~returned.raised
        /\ Len(rows) + Len(errors) = Len(vendors)

\* inside the loop every vendor handled so far is one row or one error
C10_LoopAccountsForEachVendor ==
    bpc = "fetch" => Len(rows) + Len(errors) = vi - 1

-----------------------------------------------------------------------------
(* C11: review_vendor keeps no hidden state.  Two calls with the same raw  *)
(* records and the same report date end the same way (balance, red,        *)
(* orange, timeline, or the same exception), whatever calls were made      *)
(* before or between them, and a call leaves its raw records as given.     *)
Closed(c) == c.result # None

SameCall(c, d) == c.given = d.given /\ c.date = d.date

\* C11: calls with identical arguments have identical results and no call
\* changes the records it was given
C11_SameInputsSameResult ==
    /\ \A a, b \in 1..Len(calls) :
           (Closed(calls[a]) /\ Closed(calls[b]) /\ SameCall(calls[a], calls[b]))
               => calls[a].result = calls[b].result
    /\ \A a \in 1..Len(calls) :
           Closed(calls[a]) => calls[a].after = calls[a].given

\* the same call made twice with a different call in between, the result
\* carrying flags
C11_Witness ==
    /\ Len(calls) >= 3
    /\ Closed(calls[3])
    /\ SameCall(calls[1], calls[3])
    /\ ~SameCall(calls[1], calls[2])
    /\ ~calls[1].result.raised
    /\ calls[1].result.value.red # <<>>
    /\ calls[2].result.value.red # calls[1].result.value.red

-----------------------------------------------------------------------------
(* C12: payments are consumed oldest invoice first.  After every step of   *)
(* the scan of unpaid_invoice_over_50d the ledger holds the most recently  *)
(* opened invoices in the order they were opened, every one but the first  *)
(* with its original amount.                                               *)
InAgingScan == pc = "aging_scan"

\* the entries the scan has been through
Seen == SubSeq(Upto(tl, report_dt), 1, scan - 1)

Invoice(e) == <<e.date, e.amount>>

\* the invoices among txs, in scan order, as ledger entries
InvoicesOf(txs) ==
    LET inv == SelectSeq(txs, LAMBDA e : e.amount > 0)
    IN  [j \in 1..Len(inv) |-> Invoice(inv[j])]

\* ledger is the last invoices of opened, only its head possibly part paid
OldestFirst(ledger, opened) ==
    /\ Len(ledger) <= Len(opened)
    /\ \A j \in 1..Len(ledger) :
           LET orig == opened[Len(opened) - Len(ledger) + j]
           IN  /\ ledger[j][1] = orig[1]
               /\ IF j = 1 THEN ledger[j][2] > 0 /\ ledger[j][2] <= orig[2]
                           ELSE ledger[j][2] = orig[2]

\* C12: after every step of the scan the ledger is in opening order and at
\* most its oldest entry is below its original amount
C12_OldestInvoiceFirst ==
    InAgingScan => OldestFirst(open_invoices, InvoicesOf(Seen))

\* a part-paid oldest invoice ahead of a later, untouched one
C12_Witness ==
    /\ InAgingScan
    /\ Len(open_invoices) >= 2
    /\ \E j \in 1..Len(Seen) : Seen[j].amount < 0
    /\ open_invoices[1][2] <
           InvoicesOf(Seen)[Len(InvoicesOf(Seen)) - Len(open_invoices) + 1][2]

-----------------------------------------------------------------------------
(* C13: no look-ahead.  A payment reduces only invoices that come before   *)
(* it in the scan and what it has left over is dropped, so the invoices    *)
(* that come after the last payment seen are in the ledger with their full *)
(* amounts, in both copies of the matching scan.                           *)
InMismatchScan == pc = "mismatch_scan"

LastPayment(txs) ==
    LET P == {j \in 1..Len(txs) : txs[j].amount < 0}
    IN  IF P = {} THEN 0 ELSE CHOOSE j \in P : \A k \in P : k <= j

\* the invoices of txs that no payment of txs follows
AfterPayments(txs) == InvoicesOf(SubSeq(txs, LastPayment(txs) + 1, Len(txs)))

EndsWith(ledger, tail) ==
    /\ Len(tail) <= Len(ledger)
    /\ SubSeq(ledger, Len(ledger) - Len(tail) + 1, Len(ledger)) = tail

Amounts(ledger) == [j \in 1..Len(ledger) |-> ledger[j][2]]

\* C13: an invoice that comes after every payment scanned so far is in the
\* ledger with its full amount
C13_NoLookAhead ==
    /\ InAgingScan => EndsWith(open_invoices, AfterPayments(Seen))
    /\ InMismatchScan => EndsWith(open_amts, Amounts(AfterPayments(Seen)))

\* a payment with nothing open, then an invoice no larger than the payment:
\* the invoice is fully open at the end of the scan
C13_Witness ==
    /\ InAgingScan
    /\ scan > Len(Upto(tl, report_dt))
    /\ Len(Seen) = 2
    /\ Seen[1].amount < 0
    /\ Seen[2].amount > 0
    /\ -Seen[1].amount >= Seen[2].amount
    /\ open_invoices = <<Invoice(Seen[2])>>

-----------------------------------------------------------------------------
(* C14: amounts within 1.0 count as settled.  At the end of the matching   *)
(* scan, in the aging rule and in the credit-mismatch rule, every entry    *)
(* left in the ledger has a remaining amount above 1.0.                    *)
ScanEnded == scan > Len(Upto(tl, report_dt))

\* C14: no entry of 1.0 or less is left in either ledger when its scan ends
C14_OpenAboveTolerance ==
    /\ (InAgingScan /\ ScanEnded) =>
           \A j \in 1..Len(open_invoices) : open_invoices[j][2] > Scale
    /\ (InMismatchScan /\ ScanEnded) =>
           \A j \in 1..Len(open_amts) : open_amts[j] > Scale

\* the credit-mismatch rule never finds a credit explained by open invoices
\* that are all of 1.0 or less
C14_SmallInvoiceExplainsCredit ==
    ~ /\ InMismatchScan /\ ScanEnded
      /\ ~MismatchVerdict(open_amts, ending_balance(tl, report_dt))
      /\ \A j \in 1..Len(open_amts) : open_amts[j] <= Scale

-----------------------------------------------------------------------------
(* C15: the two copies of the matching scan agree.  After every scanned    *)
(* entry the amounts of credit_balance_mismatch are those of the ledger of *)
(* unpaid_invoice_over_50d at the same position, and at the end of the     *)
(* scan those of the ledger unpaid_invoice_over_50d ended with.            *)

\* C15: open_amts equals the remaining amounts of open_invoices, entry by
\* entry, at every position of the scan and at its end
C15_LedgerCopiesAgree ==
    InMismatchScan =>
        /\ open_amts = Amounts(FoldAging(<<>>, Seen))
        /\ ScanEnded => open_amts = Amounts(open_invoices)

\* both scans ended with the same non-empty ledger after a payment had
\* settled an invoice
C15_Witness ==
    /\ InMismatchScan /\ ScanEnded
    /\ open_amts # <<>>
    /\ open_amts = Amounts(open_invoices)
    /\ Len(open_amts) < Len(InvoicesOf(Seen))

-----------------------------------------------------------------------------
(* C16: flags that exclude each other.  In every result of review_vendor   *)
(* orange has at most one element, the pattern-break flag needing at least *)
(* 4 active months and the inactivity flag at most 2 transactions, and red *)
(* never holds both the debit-balance flag and the credit-mismatch flag.   *)

\* C16: never both orange flags, never both the debit and the mismatch flag
C16_ExclusiveFlags ==
    Returned =>
        /\ Len(result.value.orange) <= 1
        /\ ~(DebitFlag \in Range(result.value.red)
             /\ MismatchFlag \in Range(result.value.red))

\* a pattern break on a debit balance: one orange flag, the debit flag in red
C16_Witness ==
    /\ Returned
    /\ result.value.orange = <<PatternFlag>>
    /\ DebitFlag \in Range(result.value.red)

\* an inactive vendor in credit: one orange flag, the mismatch flag in red
C16_WitnessInactive ==
    /\ Returned
    /\ result.value.orange = <<InactiveFlag>>
    /\ MismatchFlag \in Range(result.value.red)

====
